---- MODULE Spec2Model ----
(***************************************************************************)
(* Model of the INP (Interaction to Next Paint) measurement session of     *)
(* web-vitals' onINP: the bounded list of longest interactions, its        *)
(* lookup map, the p98 estimator and the hidden / bfcache-restore          *)
(* callbacks.                                                              *)
(***************************************************************************)
EXTENDS Integers, Sequences, FiniteSets, TLC

\* ---------------------------------------------------------------- bounds
\* Number of host events (count increments, batches, hidden and restore
\* notifications) in one run.
MaxEvents == 3

\* ------------------------------------------------------ program constants
MAX_INTERACTIONS_TO_CONSIDER == 10
\* Divisor of estimateP98LongestInteraction: one slot per 50 interactions.
P98_DIVISOR == 50
\* initMetric's value of a metric that has no sample yet.
UNSET == -1

\* ------------------------------------------------------------ input sets
\* A burst fills the tracked set: as many interactions as it can hold.
BurstLen == MAX_INTERACTIONS_TO_CONSIDER
\* Interactions 1..BurstLen come in a burst, interaction BurstLen + 1 does not.
Outsider == BurstLen + 1
\* interactionId 0 stands for a fragment without interaction identity
\* (interactionId undefined or 0: both are falsy at line 151).
Ids == 0..Outsider
Durations == {1, 2, 3, 4}
StartTimes == {1, 2}
CountSteps == {50, 450}

Frag(i, d, s, t) == [id |-> i, duration |-> d, startTime |-> s, entryType |-> t]

\* Fragments the host delivers one per batch: `event' fragments of the
\* interactions 1 and Outsider, `first-input' fragments without an
\* interaction id, and an `event' fragment without one.
SingleFragments ==
    {Frag(i, d, 1, "event") : i \in {1, Outsider}, d \in {1, 2, 4}}
    \cup {Frag(0, 4, s, "first-input") : s \in StartTimes}
    \cup {Frag(0, 4, 1, "event")}

\* What po.takeRecords() gives the hidden callback: nothing, or one fragment.
PendingBatches == {<<>>, <<Frag(1, 2, 1, "event")>>}

\* A burst: the interactions BurstLen, .., 1 in one batch, with durations
\* 3, 2, 3, 2, ...
BurstBatch == [k \in 1..BurstLen |-> Frag(BurstLen + 1 - k, 2 + (k % 2), 1, "event")]

Batches == {<<f>> : f \in SingleFragments} \cup {BurstBatch}

\* ------------------------------------------------------------------ state
VARIABLES
    phase,                   \* "dormant" until whenActivated's callback ran
    po,                      \* observe() returned an observer
    reportAllChanges,        \* opts.reportAllChanges
    interactionCount,        \* the host's total: getInteractionCount()
    prevInteractionCount,
    longestInteractionList,
    longestInteractionMap,
    metric,                  \* [value, entries]
    reported,                \* the bound reporter's previously reported value
    last,                    \* the session callback that ran last, and what it did
    sessionLog,              \* fragments passed to processEntry since the last restore
    restored,                \* a bfcache restore has happened
    events                   \* number of host events so far

vars == <<phase, po, reportAllChanges, interactionCount, prevInteractionCount,
          longestInteractionList, longestInteractionMap, metric, reported,
          last, sessionLog, restored, events>>

\* The absent value of a map lookup / of an estimate (undefined).
NoInteraction == [id |-> -1, latency |-> -1, entries |-> <<>>]

EmptyMap == [i \in Ids |-> NoInteraction]

initMetric == [value |-> UNSET, entries |-> <<>>]

Max(a, b) == IF a >= b THEN a ELSE b
Min(a, b) == IF a <= b THEN a ELSE b

\* ------------------------------------------------------------ processEntry
\* Array.prototype.sort with comparator b.latency - a.latency.  The sort is
\* stable (ECMAScript 2019): x goes behind every element whose latency is >=
\* its own, so interactions of equal latency keep their order of arrival.
RECURSIVE InsertDesc(_, _)
InsertDesc(x, s) ==
    IF s = <<>> THEN <<x>>
    ELSE IF Head(s).latency >= x.latency THEN <<Head(s)>> \o InsertDesc(x, Tail(s))
    ELSE <<x>> \o s

\* The list left as it is: the sort forgotten.
SortDesc_Unsorted(s) == s

RECURSIVE SortDesc(_)
SortDesc(s) ==
    IF s = <<>> THEN <<>>
    ELSE InsertDesc(s[Len(s)], SortDesc(SubSeq(s, 1, Len(s) - 1)))

\* splice(MAX_INTERACTIONS_TO_CONSIDER): the removed tail and what stays.
\* Nothing spliced off: the list is not trimmed.
SpliceKept_NoTrim(s) == s

SpliceKept(s) == SubSeq(s, 1, Min(Len(s), MAX_INTERACTIONS_TO_CONSIDER))
SpliceRemoved(s) == SubSeq(s, MAX_INTERACTIONS_TO_CONSIDER + 1, Len(s))

\* The latency overwritten by the incoming duration instead of raised to it.
MergeEntry_Overwrite(existing, entry) ==
    [id |-> existing.id,
     latency |-> entry.duration,
     entries |-> Append(existing.entries, entry)]

\* The latency lowered to the shorter of the two: min for max.
MergeEntry_Min(existing, entry) ==
    [id |-> existing.id,
     latency |-> Min(existing.latency, entry.duration),
     entries |-> Append(existing.entries, entry)]

\* The merged record of an existing interaction (lines 76-78).
MergeEntry(existing, entry) ==
    [id |-> existing.id,
     latency |-> Max(existing.latency, entry.duration),
     entries |-> Append(existing.entries, entry)]

\* The record of a new interaction (lines 80-84).
NewInteraction(entry) ==
    [id |-> entry.id, latency |-> entry.duration, entries |-> <<entry>>]

\* The admission test of lines 71-73.
Admits(list, map, entry) ==
    \/ map[entry.id] # NoInteraction
    \/ Len(list) < MAX_INTERACTIONS_TO_CONSIDER
    \/ entry.duration > list[Len(list)].latency

\* The list after the upsert, before sort and splice.  The map and the list
\* hold the same objects, so a record updated through the map changes in the
\* list as well, when it is there: a record the map kept over a bfcache
\* restore is in no list, and the update leaves the list as it is.
Upserted(list, map, entry) ==
    LET existing == map[entry.id] IN
    IF existing # NoInteraction
    THEN [k \in 1..Len(list) |->
            IF list[k] = existing THEN MergeEntry(existing, entry) ELSE list[k]]
    ELSE Append(list, NewInteraction(entry))

\* processEntry on the state st = [list, map, log].
processEntry(st, entry) ==
    LET list == st.list
        map == st.map
        log == Append(st.log, entry)
    IN
    IF Admits(list, map, entry)
    THEN LET existing == map[entry.id]
             map1 == IF existing # NoInteraction
                     THEN [map EXCEPT ![entry.id] = MergeEntry(existing, entry)]
                     ELSE [map EXCEPT ![entry.id] = NewInteraction(entry)]
             sorted == SortDesc(Upserted(list, map, entry))
             removed == SpliceRemoved(sorted)
             removedIds == {removed[k].id : k \in 1..Len(removed)}
         IN [list |-> SpliceKept(sorted),
             map |-> [i \in Ids |-> IF i \in removedIds THEN NoInteraction ELSE map1[i]],
             log |-> log]
    ELSE [list |-> list, map |-> map, log |-> log]

\* ----------------------------------------------------------- the estimator
getInteractionCountForNavigation(count, prev) == count - prev

\* Math.floor of a quotient by a positive divisor.
FloorDiv(n, d) == n \div d

\* An estimate of latency 0 made up when nothing is tracked.
estimateP98_ZeroWhenEmpty(list, count, prev) ==
    IF list = <<>> THEN [id |-> 0, latency |-> 0, entries |-> <<>>]
    ELSE list[Min(Len(list) - 1,
                  FloorDiv(getInteractionCountForNavigation(count, prev), P98_DIVISOR)) + 1]

\* The index not clamped to the last tracked interaction.
estimateP98_NoClamp(list, count, prev) ==
    LET candidateInteractionIndex ==
            FloorDiv(getInteractionCountForNavigation(count, prev), P98_DIVISOR)
    IN  IF candidateInteractionIndex >= 0 /\ candidateInteractionIndex < Len(list)
        THEN list[candidateInteractionIndex + 1]
        ELSE NoInteraction

estimateP98LongestInteraction(list, count, prev) ==
    LET candidateInteractionIndex ==
            Min(Len(list) - 1,
                FloorDiv(getInteractionCountForNavigation(count, prev), P98_DIVISOR))
    IN  IF candidateInteractionIndex >= 0 /\ candidateInteractionIndex < Len(list)
        THEN list[candidateInteractionIndex + 1]
        ELSE NoInteraction

\* ------------------------------------------------------------ handleEntries
\* The comparison with the tracked fragments forgotten.
noMatchingEntry_Always(list, entry) == TRUE

\* Lines 164-169: no tracked interaction has a fragment with the entry's
\* duration and startTime.
noMatchingEntry(list, entry) ==
    ~ \E k \in 1..Len(list) :
        \E j \in 1..Len(list[k].entries) :
            /\ entry.duration = list[k].entries[j].duration
            /\ entry.startTime = list[k].entries[j].startTime

\* One turn of the forEach body (lines 151-173).
handleEntry(st, entry) ==
    LET st1 == IF entry.id # 0 THEN processEntry(st, entry) ELSE st
    IN  IF entry.entryType = "first-input" /\ noMatchingEntry(st1.list, entry)
        THEN processEntry(st1, entry)
        ELSE st1

RECURSIVE forEachEntry(_, _)
forEachEntry(st, entries) ==
    IF entries = <<>> THEN st
    ELSE forEachEntry(handleEntry(st, Head(entries)), Tail(entries))

\* The reporter bindReporter returns, called with forceReport = force on the
\* metric m; rep is the value it reported last.  It gives whether the sink
\* is invoked, and the new last-reported value.
report(force, m, rep, rac) ==
    LET sink == m.value >= 0 /\ (force \/ rac \/ m.value # rep)
    IN  [sink |-> sink, reported |-> IF sink THEN m.value ELSE rep]

\* Reported whenever there is an estimate, changed or not.
ShouldReport_Always(inp, m) == inp # NoInteraction

\* Lines 178-182: the estimate inp becomes the metric and is reported when
\* there is one and its latency is not the metric's value.
ShouldReport(inp, m) == inp # NoInteraction /\ inp.latency # m.value

\* Only the value taken from the estimate, the entries left as they were.
UpdateMetric_ValueOnly(m, inp) == [value |-> inp.latency, entries |-> m.entries]

\* Lines 179-180: the metric takes the estimate's latency and entries.
UpdateMetric(m, inp) == [value |-> inp.latency, entries |-> inp.entries]

\* handleEntries on the whole session state: the tracked list and map, the
\* metric, the reporter, the reporter calls made, the metric each call saw
\* and the sink invocations.
handleEntries(st, m, rep, rac, count, prev, entries) ==
    LET st1 == forEachEntry(st, entries)
        inp == estimateP98LongestInteraction(st1.list, count, prev)
    IN  IF ShouldReport(inp, m)
        THEN LET m1 == UpdateMetric(m, inp)
                 r == report(FALSE, m1, rep, rac)
             IN [st |-> st1, metric |-> m1, reported |-> r.reported, inp |-> inp,
                 calls |-> <<FALSE>>, seen |-> <<m1>>,
                 sinks |-> IF r.sink THEN <<m1.value>> ELSE <<>>]
        ELSE [st |-> st1, metric |-> m, reported |-> rep, inp |-> inp,
              calls |-> <<>>, seen |-> <<>>, sinks |-> <<>>]

\* ------------------------------------------------------------------ actions
\* kind: the callback; batch: the fragments it was given; count: the host's
\* total when it ran; preValue: metric.value before it; est: the estimate it
\* computed; calls: the forceReport flags of its reporter calls, in order;
\* seen: the metric each of these calls found; sinks: the values the report
\* sink was invoked with.
Last(kind, batch, pre, inp, calls, seen, sinks) ==
    [kind |-> kind, batch |-> batch, count |-> interactionCount,
     preValue |-> pre, est |-> inp, calls |-> calls, seen |-> seen,
     sinks |-> sinks]

\* The observer there from the start, not waiting for the activation.
Init_ObservingAtOnce ==
    /\ phase = "dormant"
    /\ po = TRUE
    /\ reportAllChanges \in BOOLEAN
    /\ interactionCount = 0
    /\ prevInteractionCount = 0
    /\ longestInteractionList = <<>>
    /\ longestInteractionMap = EmptyMap
    /\ metric = initMetric
    /\ reported = UNSET
    /\ last = Last("init", <<>>, UNSET, NoInteraction, <<>>, <<>>, <<>>)
    /\ sessionLog = <<>>
    /\ restored = FALSE
    /\ events = 0

Init ==
    /\ phase = "dormant"
    /\ po = FALSE
    /\ reportAllChanges \in BOOLEAN
    /\ interactionCount = 0
    /\ prevInteractionCount = 0
    /\ longestInteractionList = <<>>
    /\ longestInteractionMap = EmptyMap
    /\ metric = initMetric
    /\ reported = UNSET
    /\ last = Last("init", <<>>, UNSET, NoInteraction, <<>>, <<>>, <<>>)
    /\ sessionLog = <<>>
    /\ restored = FALSE
    /\ events = 0

\* One more host event, within the bound of the run.
HostEvent == events < MaxEvents /\ events' = events + 1

\* The hooks registered without asking for the observer.
Registered_Always == phase = "armed"

\* Line 197: the observer's callback and the hidden and restore hooks exist
\* once whenActivated's callback ran and observe() returned an observer.
Registered == phase = "armed" /\ po

\* The host counts one more batch of interactions (getInteractionCount grows).
IncrementInteractionCount(d) ==
    /\ HostEvent
    /\ interactionCount' = interactionCount + d
    /\ UNCHANGED <<phase, po, reportAllChanges, prevInteractionCount,
                   longestInteractionList, longestInteractionMap, metric,
                   reported, last, sessionLog, restored>>

\* whenActivated's callback (lines 139-228): the metric and the reporter are
\* created; observe() returns an observer or not.
Activate(observer) ==
    /\ phase = "dormant"
    /\ phase' = "armed"
    /\ po' = observer
    /\ metric' = initMetric
    /\ reported' = UNSET
    /\ last' = Last("activate", <<>>, metric.value, NoInteraction, <<>>, <<>>, <<>>)
    /\ UNCHANGED <<reportAllChanges, interactionCount, prevInteractionCount,
                   longestInteractionList, longestInteractionMap, sessionLog,
                   restored, events>>

\* The observer's callback: handleEntries on one batch of fragments.
DeliverBatch(batch) ==
    /\ Registered
    /\ HostEvent
    /\ LET h == handleEntries([list |-> longestInteractionList,
                               map |-> longestInteractionMap,
                               log |-> sessionLog],
                              metric, reported, reportAllChanges,
                              interactionCount, prevInteractionCount, batch)
       IN /\ longestInteractionList' = h.st.list
          /\ longestInteractionMap' = h.st.map
          /\ sessionLog' = h.st.log
          /\ metric' = h.metric
          /\ reported' = h.reported
          /\ last' = Last("batch", batch, metric.value, h.inp, h.calls, h.seen, h.sinks)
    /\ UNCHANGED <<phase, po, reportAllChanges, interactionCount,
                   prevInteractionCount, restored>>

\* The unset metric made 0 whether or not interactions were counted.
ZeroIfUnobserved_Always(m, count, prev) ==
    IF m.value < 0 THEN [value |-> 0, entries |-> <<>>] ELSE m

\* Lines 207-210: interactions were counted but none was observed.
ZeroIfUnobserved(m, count, prev) ==
    IF m.value < 0 /\ getInteractionCountForNavigation(count, prev) > 0
    THEN [value |-> 0, entries |-> <<>>]
    ELSE m

\* The reporter called without forceReport.
finalReport_Unforced(m, rep, rac) ==
    [force |-> FALSE, r |-> report(FALSE, m, rep, rac)]

\* Line 212: report(true).
finalReport(m, rep, rac) ==
    [force |-> TRUE, r |-> report(TRUE, m, rep, rac)]

\* The onHidden callback (lines 202-213); pending is po.takeRecords().
PageHidden(pending) ==
    /\ Registered
    /\ HostEvent
    /\ LET h == handleEntries([list |-> longestInteractionList,
                               map |-> longestInteractionMap,
                               log |-> sessionLog],
                              metric, reported, reportAllChanges,
                              interactionCount, prevInteractionCount, pending)
           m1 == ZeroIfUnobserved(h.metric, interactionCount, prevInteractionCount)
           fin == finalReport(m1, h.reported, reportAllChanges)
           r == fin.r
       IN /\ longestInteractionList' = h.st.list
          /\ longestInteractionMap' = h.st.map
          /\ sessionLog' = h.st.log
          /\ metric' = m1
          /\ reported' = r.reported
          /\ last' = Last("hidden", pending, metric.value, h.inp,
                          Append(h.calls, fin.force), Append(h.seen, m1),
                          IF r.sink THEN Append(h.sinks, m1.value) ELSE h.sinks)
    /\ UNCHANGED <<phase, po, reportAllChanges, interactionCount,
                   prevInteractionCount, restored>>

\* The host's total added to the baseline instead of replacing it.
BaselineAtRestore_Added(count, prev) == prev + count

\* Line 221: the baseline becomes the host's total.
BaselineAtRestore(count, prev) == count

\* The onBFCacheRestore callback (lines 217-226).
BFCacheRestore ==
    /\ Registered
    /\ HostEvent
    /\ longestInteractionList' = <<>>
    /\ prevInteractionCount' = BaselineAtRestore(interactionCount, prevInteractionCount)
    /\ metric' = initMetric
    /\ reported' = UNSET
    /\ sessionLog' = <<>>
    /\ restored' = TRUE
    /\ last' = Last("restore", <<>>, metric.value, NoInteraction, <<>>, <<>>, <<>>)
    /\ UNCHANGED <<phase, po, reportAllChanges, interactionCount, longestInteractionMap>>

Next ==
    \/ \E d \in CountSteps : IncrementInteractionCount(d)
    \/ \E observer \in BOOLEAN : Activate(observer)
    \/ \E batch \in Batches : DeliverBatch(batch)
    \/ \E pending \in PendingBatches : PageHidden(pending)
    \/ BFCacheRestore

Spec == Init /\ [][Next]_vars

\* ================================================================= claims
TrackedIds == {longestInteractionList[k].id : k \in 1..Len(longestInteractionList)}
LogIds == {sessionLog[k].id : k \in 1..Len(sessionLog)}

\* C1: in every reachable state the tracked set holds at most
\* MAX_INTERACTIONS_TO_CONSIDER = 10 interactions.
C1_AtMostK == Len(longestInteractionList) <= MAX_INTERACTIONS_TO_CONSIDER

\* The tracked set is full and an eleventh interaction has been processed.
C1_Witness ==
    /\ Len(longestInteractionList) = MAX_INTERACTIONS_TO_CONSIDER
    /\ Cardinality(LogIds) > MAX_INTERACTIONS_TO_CONSIDER

\* C2: after every callback the tracked set is sorted by latency in
\* non-increasing order, also after a latency was raised in place.
C2_SortedDescending ==
    \A k \in 1..(Len(longestInteractionList) - 1) :
        longestInteractionList[k].latency >= longestInteractionList[k + 1].latency

\* A tracked interaction that was behind others had its latency raised by a
\* later fragment and now leads a full tracked set.
C2_Witness ==
    /\ last.kind = "batch"
    /\ Len(longestInteractionList) = MAX_INTERACTIONS_TO_CONSIDER
    /\ Len(longestInteractionList[1].entries) = 2
    /\ longestInteractionList[1].entries[1].duration < longestInteractionList[2].latency
    /\ longestInteractionList[1].latency > longestInteractionList[2].latency

\* C3 (as claimed): the keys of the lookup map are exactly the ids of the
\* tracked interactions, and each key maps to the tracked record.
C3_MapEqualsTrackedSet ==
    /\ \A i \in Ids : longestInteractionMap[i] # NoInteraction <=> i \in TrackedIds
    /\ \A k \in 1..Len(longestInteractionList) :
        longestInteractionMap[longestInteractionList[k].id] = longestInteractionList[k]

\* C4 (as claimed): right after a bfcache restore the tracked set and the
\* lookup map are empty and the baseline is the host's total at that moment.
C4_RestoreClearsAll ==
    last.kind = "restore" =>
        /\ longestInteractionList = <<>>
        /\ longestInteractionMap = EmptyMap
        /\ prevInteractionCount = last.count

\* processEntry applied to the fragments of log in order, from the state st.
RECURSIVE Replay(_, _)
Replay(st, log) ==
    IF log = <<>> THEN st
    ELSE Replay(processEntry(st, Head(log)), Tail(log))

FreshSession == [list |-> <<>>, map |-> EmptyMap, log |-> <<>>]

\* C5 (as claimed): after a bfcache restore the tracked set and the estimate
\* do not depend on what was delivered before the restore: they are what the
\* fragments processed since the restore give on a session without history.
C5_IndependentOfHistory ==
    restored =>
        LET fresh == Replay(FreshSession, sessionLog).list IN
        /\ longestInteractionList = fresh
        /\ estimateP98LongestInteraction(longestInteractionList,
                                         interactionCount, prevInteractionCount)
           = estimateP98LongestInteraction(fresh, interactionCount, prevInteractionCount)

\* The largest duration among the fragments of interaction i in the log.
MaxDurationOf(i, log) ==
    LET ds == {log[k].duration : k \in {j \in 1..Len(log) : log[j].id = i}}
    IN  CHOOSE d \in ds : \A e \in ds : e <= d

\* How many interactions of the set S have the per-interaction maximum v.
CountWithMax(S, v, log) == Cardinality({i \in S : MaxDurationOf(i, log) = v})

\* How many of the n largest per-interaction maxima equal v: those not
\* taken up by the interactions with a larger maximum.
TopShare(S, v, n, log) ==
    LET above == Cardinality({i \in S : MaxDurationOf(i, log) > v})
        room == IF n > above THEN n - above ELSE 0
    IN  Min(room, CountWithMax(S, v, log))

TrackedWithLatency(v) ==
    Cardinality({k \in 1..Len(longestInteractionList) : longestInteractionList[k].latency = v})

OnlyIdentityBearing(log) ==
    \A k \in 1..Len(log) : log[k].id # 0 /\ log[k].entryType = "event"

\* C6 (as claimed): within a session of identity-bearing fragments the
\* latencies of the tracked set are, as a multiset, the min(10, D) largest
\* per-interaction maximum durations of the D interactions seen so far.
C6_TopKOfSession ==
    OnlyIdentityBearing(sessionLog) =>
        LET n == Min(MAX_INTERACTIONS_TO_CONSIDER, Cardinality(LogIds)) IN
        /\ Len(longestInteractionList) = n
        /\ \A v \in Durations : TrackedWithLatency(v) = TopShare(LogIds, v, n, sessionLog)

\* The same for the session that was never restored from the bfcache.
C6_TopKOfFirstSession == ~restored => C6_TopKOfSession

RECURSIVE MaxDuration(_)
MaxDuration(entries) ==
    IF Len(entries) = 1 THEN entries[1].duration
    ELSE Max(Head(entries).duration, MaxDuration(Tail(entries)))

\* The fragments of interaction i among log[j..], in order.
FragmentsFrom(i, j, log) ==
    LET OfInteraction(f) == f.id = i
    IN  SelectSeq(SubSeq(log, j, Len(log)), OfInteraction)

\* C7: every tracked interaction has as latency the maximum duration of the
\* fragments merged into it, and as entries exactly the fragments of its id
\* processed since it was created, each once, in arrival order.
C7_LatencyIsMaxOfEntries ==
    \A k \in 1..Len(longestInteractionList) :
        LET it == longestInteractionList[k] IN
        /\ it.entries # <<>>
        /\ it.latency = MaxDuration(it.entries)
        /\ \E j \in 1..Len(sessionLog) :
            /\ sessionLog[j] = it.entries[1]
            /\ it.entries = FragmentsFrom(it.id, j, sessionLog)

\* A tracked interaction merged from two fragments, the first the longer,
\* and another one whose second fragment raised its latency.
C7_Witness ==
    \E k \in 1..Len(longestInteractionList) :
        LET it == longestInteractionList[k] IN
        /\ Len(it.entries) = 2
        /\ it.entries[1].duration < it.entries[2].duration
        /\ it.latency = it.entries[2].duration
        /\ Len(longestInteractionList) > 1

\* Interactions since the baseline when the last callback ran.
SinceBaseline == last.count - prevInteractionCount

Estimating == last.kind \in {"batch", "hidden"}

\* C8: the estimate of a callback is the tracked interaction at index
\* min(L - 1, floor(N / 50)) (from 0) of the tracked set of length L, N being
\* the interactions since the baseline; with L = 10 that is index 0 for N in
\* 0..49, index 1 for N in 50..99 and index 9 for N >= 450; there is no
\* estimate when the tracked set is empty.
C8_PercentileIndexLaw ==
    Estimating =>
        LET L == Len(longestInteractionList)
            N == SinceBaseline
            q == CHOOSE x \in 0..N : 50 * x <= N /\ N < 50 * (x + 1)
        IN  /\ N >= 0
            /\ L = 0 => last.est = NoInteraction
            /\ L > 0 /\ q < L - 1 => last.est = longestInteractionList[q + 1]
            /\ L > 0 /\ q >= L - 1 => last.est = longestInteractionList[L]
            /\ L = 10 /\ N \in 0..49 => last.est = longestInteractionList[1]
            /\ L = 10 /\ N \in 50..99 => last.est = longestInteractionList[2]
            /\ L = 10 /\ N >= 450 => last.est = longestInteractionList[10]

\* A batch was estimated on a full tracked set 450 or more interactions
\* after the baseline, and the estimate is the shortest tracked interaction.
C8_Witness ==
    /\ last.kind = "batch"
    /\ Len(longestInteractionList) = 10
    /\ SinceBaseline >= 450
    /\ last.est = longestInteractionList[10]
    /\ last.est.latency < longestInteractionList[1].latency

HasEstimate == last.est # NoInteraction

\* C9 (as claimed): after the estimate of a batch the sink is invoked only
\* if the estimate's latency differs from the metric's previous value, and
\* with reportAllChanges it is invoked after every recomputation, also when
\* the latency equals the metric's value.
C9_ReportAllChangesUnconditional ==
    last.kind = "batch" /\ HasEstimate =>
        /\ ~reportAllChanges => (last.sinks # <<>> => last.est.latency # last.preValue)
        /\ reportAllChanges => last.sinks # <<>>

\* C9 (amended): after the estimate of a batch the reporter is called, once
\* and unforced, exactly when there is an estimate whose latency differs
\* from the metric's value, and the sink is invoked only in that case and
\* with that latency; this is so with and without reportAllChanges.
C9_ReportOnlyOnChange ==
    last.kind = "batch" =>
        LET changed == HasEstimate /\ last.est.latency # last.preValue IN
        /\ last.calls = IF changed THEN <<FALSE>> ELSE <<>>
        /\ last.sinks # <<>> => changed /\ last.sinks = <<last.est.latency>>
        /\ ~changed => metric.value = last.preValue

\* With reportAllChanges a batch gave an estimate whose latency is the
\* metric's value, and the reporter was not called.
C9_Witness ==
    /\ reportAllChanges
    /\ last.kind = "batch"
    /\ last.batch # <<>>
    /\ HasEstimate
    /\ last.est.latency = last.preValue
    /\ last.calls = <<>>

\* C10: a hidden notification processes the observer's pending records and
\* then calls the reporter exactly once with forceReport = true, as its last
\* call, whatever reportAllChanges is and whether or not the estimate
\* changed; the observer and the callbacks stay registered.
C10_HiddenForcesOneReport ==
    last.kind = "hidden" =>
        /\ last.calls # <<>>
        /\ last.calls[Len(last.calls)] = TRUE
        /\ Cardinality({k \in 1..Len(last.calls) : last.calls[k]}) = 1
        /\ \A k \in 1..Len(last.batch) :
            last.batch[k].id # 0 =>
                \E j \in 1..Len(sessionLog) : sessionLog[j] = last.batch[k]
        /\ phase = "armed" /\ po

\* Without reportAllChanges a hidden notification with a pending fragment
\* that did not change the estimate made its one forced call.
C10_Witness ==
    /\ ~reportAllChanges
    /\ last.kind = "hidden"
    /\ last.batch # <<>>
    /\ last.est.latency = last.preValue
    /\ last.calls = <<TRUE>>
    /\ last.sinks = <<metric.value>>

\* The hidden callback found the metric unset after it had processed the
\* pending records: it was unset before, and there was no estimate.
HiddenStillUnset == last.kind = "hidden" /\ last.preValue < 0 /\ ~HasEstimate

\* C11: at a hidden notification whose metric is still unset after the
\* pending records, the metric becomes value 0 with no entries before the
\* forced report when interactions were counted since the baseline, and
\* stays unset, with nothing emitted, when none was.
C11_ZeroWhenUnobserved ==
    HiddenStillUnset =>
        /\ SinceBaseline > 0 =>
            /\ metric = [value |-> 0, entries |-> <<>>]
            /\ last.seen = <<metric>>
            /\ last.sinks = <<0>>
        /\ SinceBaseline = 0 =>
            /\ metric.value < 0
            /\ last.seen = <<metric>>
            /\ last.sinks = <<>>

\* A hidden notification came with the metric unset and interactions
\* counted since the baseline, and 0 was reported.
C11_Witness ==
    /\ HiddenStillUnset
    /\ SinceBaseline > 0
    /\ metric.value = 0
    /\ last.sinks = <<0>>

\* A step of a session callback: a host event that is no count increment.
CallbackStep == events' # events /\ interactionCount' = interactionCount

\* A step that processed the one-fragment batch of a callback.
SingleStep ==
    CallbackStep /\ last'.kind \in {"batch", "hidden"} /\ Len(last'.batch) = 1

\* The tracked set and the map are as before but for the record at
\* position k, which has the fragment f appended to its entries.
OnlyEntriesGrew(k, f) ==
    LET grown == [longestInteractionList[k] EXCEPT !.entries = Append(@, f)] IN
    /\ longestInteractionList' = [longestInteractionList EXCEPT ![k] = grown]
    /\ longestInteractionMap' = [longestInteractionMap EXCEPT ![f.id] = grown]

\* C12: a fragment of an interaction that is tracked, with a duration not
\* above the interaction's latency, changes nothing in the tracked set and
\* the map but the entries of that interaction, which get it appended.
C12_ReadmitIsIdempotent ==
    [][SingleStep =>
        LET f == last'.batch[1] IN
        \A k \in 1..Len(longestInteractionList) :
            (/\ f.id # 0
             /\ f.entryType = "event"
             /\ longestInteractionList[k].id = f.id
             /\ f.duration <= longestInteractionList[k].latency)
            => OnlyEntriesGrew(k, f)]_vars

\* A batch brought a tracked interaction a fragment shorter than its
\* latency; the interaction is tracked among others.
C12_Witness ==
    /\ last.kind = "batch"
    /\ Len(last.batch) = 1
    /\ Len(longestInteractionList) > 1
    /\ \E k \in 1..Len(longestInteractionList) :
        LET it == longestInteractionList[k] IN
        /\ it.id = last.batch[1].id
        /\ Len(it.entries) = 2
        /\ it.entries[2] = last.batch[1]
        /\ it.entries[2].duration < it.entries[1].duration
        /\ it.latency = it.entries[1].duration

\* The fragments of the tracked interactions.
TrackedFragments ==
    UNION {{longestInteractionList[k].entries[j] :
                j \in 1..Len(longestInteractionList[k].entries)} :
           k \in 1..Len(longestInteractionList)}

\* A tracked fragment has the duration and the start time of f.
Duplicates(f) ==
    \E e \in TrackedFragments : e.duration = f.duration /\ e.startTime = f.startTime

\* C13: a fragment without interaction identity becomes a candidate only if
\* it is a first-input fragment and no tracked fragment has its duration and
\* start time; one that is no first-input fragment, or has such a
\* duplicate, leaves the tracked set and the map unchanged.
C13_IdentityLessDedup ==
    [][SingleStep /\ last'.batch[1].id = 0 =>
        LET f == last'.batch[1]
            refused == f.entryType # "first-input" \/ Duplicates(f)
        IN  /\ sessionLog' # sessionLog => ~refused
            /\ refused => /\ longestInteractionList' = longestInteractionList
                          /\ longestInteractionMap' = longestInteractionMap
                          /\ sessionLog' = sessionLog]_vars

\* A first-input fragment without identity came after the event fragment of
\* the same duration and start time was tracked, and was not tracked itself.
C13_Witness ==
    /\ last.kind = "batch"
    /\ Len(last.batch) = 1
    /\ last.batch[1].id = 0
    /\ last.batch[1].entryType = "first-input"
    /\ Duplicates(last.batch[1])
    /\ last.batch[1] \notin TrackedFragments
    /\ 0 \notin TrackedIds

\* C14: a batch after which nothing is tracked has no estimate, leaves the
\* metric's value and entries as they were and calls neither the reporter
\* nor the sink.
C14_NoEstimateNoReport ==
    [][CallbackStep /\ last'.kind = "batch" /\ longestInteractionList' = <<>> =>
        /\ last'.est = NoInteraction
        /\ metric' = metric
        /\ last'.calls = <<>>
        /\ last'.sinks = <<>>]_vars

\* A batch brought a fragment and nothing is tracked after it.
C14_Witness ==
    /\ last.kind = "batch"
    /\ last.batch # <<>>
    /\ longestInteractionList = <<>>
    /\ last.est = NoInteraction
    /\ last.calls = <<>>

\* The session state as the module's top level leaves it.
Untouched ==
    /\ longestInteractionList = <<>>
    /\ longestInteractionMap = EmptyMap
    /\ prevInteractionCount = 0
    /\ metric = initMetric
    /\ sessionLog = <<>>
    /\ last.calls = <<>>
    /\ last.sinks = <<>>

\* C15: when observe() gave no observer, the sink is never invoked, the
\* metric stays unset and the tracked set, the map and the baseline are
\* never modified, whatever the host does afterwards.
C15_NoObserverNoMetric ==
    phase = "armed" /\ ~po => Untouched /\ last.kind = "activate"

\* Without an observer the host went on for two events or more.
C15_Witness ==
    /\ phase = "armed"
    /\ ~po
    /\ last.kind = "activate"
    /\ events >= 2
    /\ interactionCount > 0

\* C16: before the activation no fragment is processed, the session state
\* is not touched, no observer or hook is registered and nothing is
\* reported; the session is armed by the activation callback and by nothing
\* else.
C16_DormantUntilActivated ==
    /\ [](phase = "dormant" => Untouched /\ ~po /\ last.kind = "init")
    /\ [][phase' # phase =>
            phase = "dormant" /\ phase' = "armed" /\ last'.kind = "activate"]_vars

\* Still dormant after the host counted interactions.
C16_Witness ==
    /\ phase = "dormant"
    /\ events >= 1
    /\ interactionCount > 0

\* C17: the interactions since the baseline are never negative, over any
\* number of restores, and are the host's total before the first restore.
C17_SinceBaselineNonNegative ==
    /\ interactionCount - prevInteractionCount >= 0
    /\ getInteractionCountForNavigation(interactionCount, prevInteractionCount) >= 0
    /\ ~restored =>
        /\ prevInteractionCount = 0
        /\ getInteractionCountForNavigation(interactionCount, prevInteractionCount)
           = interactionCount

\* A restore set a baseline above 0 and the host counted on after it.
C17_Witness ==
    /\ restored
    /\ prevInteractionCount > 0
    /\ interactionCount > prevInteractionCount

\* The session state as processEntry takes it.
Current ==
    [list |-> longestInteractionList, map |-> longestInteractionMap, log |-> sessionLog]

\* The fragment f meets none of the admission conditions as the claim
\* states them: its interaction is not tracked, the tracked set is full and
\* its duration is not above the least tracked latency.
NotAdmissible(f) ==
    /\ f.id \notin TrackedIds
    /\ Len(longestInteractionList) = MAX_INTERACTIONS_TO_CONSIDER
    /\ f.duration <= longestInteractionList[Len(longestInteractionList)].latency

IdentityFragments == {f \in SingleFragments : f.id # 0 /\ f.entryType = "event"}

\* C18 (as claimed): processEntry on a fragment that meets none of the
\* admission conditions leaves the tracked set and the map as they are.
C18_RejectedIsNoOp ==
    \A f \in IdentityFragments :
        NotAdmissible(f) =>
            /\ processEntry(Current, f).list = longestInteractionList
            /\ processEntry(Current, f).map = longestInteractionMap

\* The same for the session that was never restored from the bfcache.
C18_RejectedIsNoOpFirstSession == ~restored => C18_RejectedIsNoOp

\* A callback called the reporter from handleEntries.
ReportedFromBatch == Estimating /\ last.calls # <<>> /\ last.calls[1] = FALSE

\* C19: when handleEntries calls the reporter, the metric the reporter finds
\* has the latency and the entries of the estimate, a tracked interaction;
\* it is the metric of the current session, also after a restore.
C19_MetricUpdatedBeforeReport ==
    ReportedFromBatch =>
        /\ \E k \in 1..Len(longestInteractionList) : longestInteractionList[k] = last.est
        /\ last.seen[1] = [value |-> last.est.latency, entries |-> last.est.entries]
        /\ last.kind = "batch" => metric = last.seen[1]

\* After a restore a batch gave the fresh metric its first value and
\* reported it.
C19_Witness ==
    /\ restored
    /\ last.kind = "batch"
    /\ last.preValue = UNSET
    /\ last.calls = <<FALSE>>
    /\ metric.value = last.est.latency
    /\ metric.entries # <<>>

\* C20: within a session the least latency of a full tracked set never
\* decreases, and the set stays full.
C20_MinNeverDecreases ==
    [][(/\ CallbackStep
        /\ last'.kind # "restore"
        /\ Len(longestInteractionList) = MAX_INTERACTIONS_TO_CONSIDER)
       => /\ Len(longestInteractionList') = MAX_INTERACTIONS_TO_CONSIDER
          /\ longestInteractionList'[MAX_INTERACTIONS_TO_CONSIDER].latency
             >= longestInteractionList[MAX_INTERACTIONS_TO_CONSIDER].latency]_vars

\* The tracked set was full and a later batch brought an eleventh
\* interaction, which is tracked now.
C20_Witness ==
    /\ last.kind = "batch"
    /\ Len(last.batch) = 1
    /\ Len(longestInteractionList) = MAX_INTERACTIONS_TO_CONSIDER
    /\ last.batch[1].id \in TrackedIds
    /\ Cardinality(LogIds) > MAX_INTERACTIONS_TO_CONSIDER
    /\ Len(sessionLog) = Cardinality(LogIds)
====
